---- MODULE Spec2Model ----
(***************************************************************************)
(* A model of cmds/cmp/cmp.go: main parses the flags and the positional    *)
(* arguments, opens the two files and starts one emit goroutine per file;  *)
(* each emit seeks to its offset, then reads its file byte by byte and     *)
(* sends every byte on a buffered channel, closing the channel at the      *)
(* first ReadByte error (end of file included); main then receives one     *)
(* byte from each channel per iteration and compares the two.              *)
(***************************************************************************)
EXTENDS Integers, Sequences, FiniteSets

\* ---------------------------------------------------------------- bounds
\* Longest file the model opens.
MaxLen == 2
\* Capacity of each channel in the model (make(chan byte, 8192) in the code).
ChanCap == 1

\* Byte values the files are made of: NUL, '\n' and 'a'.
NUL == 0
NL == 10
Bytes == {NUL, NL, 97}
\* Offsets a well-formed offset token can parse to.
Offsets == {0, 1}
\* len(fnames) after flag.Parse.
ArgCounts == 1 .. 5
\* Contents a file can have.
Files == UNION {[1 .. n -> Bytes] : n \in 0 .. MaxLen}
\* Contents of files of one repeated byte, up to one byte longer than MaxLen:
\* long enough for a smaller source to fill its channel.
LongFiles == {[j \in 1 .. n |-> 97] : n \in 0 .. MaxLen + 1}
\* An offset token: it parses (ok) to val, or strconv.ParseInt fails on it.
Tokens == [ok : {TRUE}, val : Offsets] \cup [ok : {FALSE}, val : {0}]

\* Exit status of the process while it is still running.
Running == -1

VARIABLES
    pc,        \* position of main: "start", "open0", "open1", "recv0", "recv1",
               \* "body" (b2 received, at "if b1 != b2"), "exit0" (at os.Exit(0)),
               \* "exit1" (at os.Exit(1)), "fatal" (inside log.Fatalf, message
               \* written), "exited"
    silent,    \* *silent (-s)
    line,      \* *line   (-L)
    long,      \* *long   (-l)
    offset,    \* offset[0], offset[1]
    opened,    \* opened[i]: openFile(fnames[i]) succeeded
    file,      \* file[i]: the bytes of the file fnames[i] names
    rpc,       \* position of emit i: "idle", "seek", "read", "send", "done",
               \* "fatal" (inside log.Fatalf, message written)
    pos,       \* read position of emit i in file[i]
    hold,      \* the byte emit i has read and not sent yet
    chan,      \* c[i]: the bytes buffered in the channel
    closed,    \* c[i] was closed
    rerr,      \* the ReadByte error emit i returned: "none", "eof", "io"
    sent,      \* history: the bytes emit i has sent on c[i], in order
    rcvd,      \* history: the values main has received from c[i], in order
    b1, b2,    \* main's b1, b2
    lineno, charno,
    status,    \* exit status of the process, Running until it exits
    out        \* the messages written to standard error, in order

vars == <<pc, silent, line, long, offset, opened, file, rpc, pos, hold,
          chan, closed, rerr, sent, rcvd, b1, b2, lineno, charno, status, out>>

flagVars == <<silent, line, long, offset>>
readerVars == <<rpc, pos, hold, chan, closed, rerr, sent>>
cursorVars == <<b1, b2, lineno, charno, rcvd>>

\* ------------------------------------------------------------- messages
\* A message on standard error: its kind and the values formatted into it.
Msg(kind, char, ln, x, y, name) ==
    [kind |-> kind, char |-> char, line |-> ln, b1 |-> x, b2 |-> y, name |-> name]

\* "bad offset1: ..." / "bad offset2: ..."
BadOffsetMsg(n) == Msg("badoffset", 0, 0, 0, 0, n)
\* "expected two filenames (and one to two optional offsets), got %d"
UsageMsg(n) == Msg("usage", n, 0, 0, 0, 0)
\* "Failed to open %s: %v"
OpenMsg(i) == Msg("open", 0, 0, 0, 0, i)
\* the Seek error emit logs
SeekMsg(i) == Msg("seek", 0, 0, 0, 0, i)
\* "%s %s differ: char %d line %d"
DifferLineMsg(c, l) == Msg("differline", c, l, 0, 0, 0)
\* "EOF on %s"
EOFMsg(i) == Msg("eof", 0, 0, 0, 0, i)
\* "%8d %#.2o %#.2o"
ListMsg(c, x, y) == Msg("list", c, 0, x, y, 0)
\* "%s %s differ: char %d"
DifferMsg(c) == Msg("differ", c, 0, 0, 0, 0)

\* ----------------------------------------------------------------- Init
Init ==
    /\ pc = "start"
    /\ silent = FALSE /\ line = FALSE /\ long = FALSE
    /\ offset = [i \in 0 .. 1 |-> 0]
    /\ opened = [i \in 0 .. 1 |-> FALSE]
    /\ file = [i \in 0 .. 1 |-> <<>>]
    /\ rpc = [i \in 0 .. 1 |-> "idle"]
    /\ pos = [i \in 0 .. 1 |-> 0]
    /\ hold = [i \in 0 .. 1 |-> 0]
    /\ chan = [i \in 0 .. 1 |-> <<>>]
    /\ closed = [i \in 0 .. 1 |-> FALSE]
    /\ rerr = [i \in 0 .. 1 |-> "none"]
    /\ sent = [i \in 0 .. 1 |-> <<>>]
    /\ rcvd = [i \in 0 .. 1 |-> <<>>]
    /\ b1 = 0 /\ b2 = 0
    /\ lineno = 1 /\ charno = 1
    /\ status = Running
    /\ out = <<>>

\* The process ends with exit status s after writing the messages ms.
\* Every goroutine ends with it.
Exit(s, ms) ==
    /\ status' = s
    /\ out' = out \o ms
    /\ pc' = "exited"

\* ----------------------------------------------------- main: arguments
\* The offsets the switch on len(fnames) leaves in offset[], and whether it
\* got past the switch: 2 arguments set none, 3 set offset[0], 4 set both.
ArgsOutcome(n, t1, t2) ==
    CASE n = 2 -> [go |-> TRUE, off |-> <<0, 0>>, st |-> Running, msgs |-> <<>>]
      [] n = 3 /\ t1.ok -> [go |-> TRUE, off |-> <<t1.val, 0>>, st |-> Running, msgs |-> <<>>]
      [] n = 3 /\ ~t1.ok -> [go |-> FALSE, off |-> <<0, 0>>, st |-> 0, msgs |-> <<BadOffsetMsg(1)>>]
      [] n = 4 /\ ~t1.ok -> [go |-> FALSE, off |-> <<0, 0>>, st |-> 0, msgs |-> <<BadOffsetMsg(1)>>]
      [] n = 4 /\ t1.ok /\ ~t2.ok ->
            [go |-> FALSE, off |-> <<t1.val, 0>>, st |-> 0, msgs |-> <<BadOffsetMsg(2)>>]
      [] n = 4 /\ t1.ok /\ t2.ok ->
            [go |-> TRUE, off |-> <<t1.val, t2.val>>, st |-> Running, msgs |-> <<>>]
      [] OTHER -> [go |-> FALSE, off |-> <<0, 0>>, st |-> 1, msgs |-> <<UsageMsg(n)>>]

\* flag.Parse and the switch on len(fnames).  A bad offset is printed and main
\* returns; any other argument count is log.Fatalf.
ParseArgs ==
    /\ pc = "start"
    /\ \E s \in BOOLEAN, ln \in BOOLEAN, lg \in BOOLEAN, n \in ArgCounts,
          t1 \in Tokens, t2 \in Tokens :
        LET r == ArgsOutcome(n, t1, t2) IN
        /\ silent' = s /\ line' = ln /\ long' = lg
        /\ offset' = [i \in 0 .. 1 |-> r.off[i + 1]]
        /\ IF r.go
             THEN /\ pc' = "open0"
                  /\ UNCHANGED <<status, out>>
             ELSE Exit(r.st, r.msgs)
    /\ UNCHANGED <<opened, file, readerVars, cursorVars>>

\* log.Fatalf is two steps of the goroutine that calls it: the message is
\* written, then os.Exit(1) ends the process.  This is the first; the other
\* goroutines run on until the second.  (The log.Fatalf of ParseArgs is one
\* step: no other goroutine has been started when it runs.)
FatalWrite(m) ==
    /\ out' = Append(out, m)
    /\ UNCHANGED status

\* One iteration of the loop that opens fnames[i], makes c[i] and starts
\* emit on it; a failed open is log.Fatalf.  The file opened holds one of
\* the contents in F.
OpenFrom(i, F) ==
    /\ pc = (IF i = 0 THEN "open0" ELSE "open1")
    /\ status = Running
    /\ \/ /\ FatalWrite(OpenMsg(i))
          /\ pc' = "fatal"
          /\ UNCHANGED <<opened, file, rpc>>
       \/ \E f \in F :
            /\ file' = [file EXCEPT ![i] = f]
            /\ opened' = [opened EXCEPT ![i] = TRUE]
            /\ rpc' = [rpc EXCEPT ![i] = "seek"]
            /\ pc' = (IF i = 0 THEN "open1" ELSE "recv0")
            /\ UNCHANGED <<status, out>>
    /\ UNCHANGED <<flagVars, pos, hold, chan, closed, rerr, sent, cursorVars>>

\* The open loop over the files of Files.
OpenFile(i) == OpenFrom(i, Files)
\* The open loop over the files of LongFiles.
OpenLongFile(i) == OpenFrom(i, LongFiles)

\* The os.Exit(1) that ends the log.Fatalf of a failed open.
MainFatalExit ==
    /\ pc = "fatal"
    /\ status = Running
    /\ Exit(1, <<>>)
    /\ UNCHANGED <<flagVars, opened, file, readerVars, cursorVars>>

\* ---------------------------------------------------------------- emit
\* SeekTo always using the first offset.
SeekToFirstOffset(i) == offset[0]
\* The offset emit i is started with: go emit(f, c[i], offset[i]).
SeekTo(i) == offset[i]

\* The head of emit: Seek when offset > 0, log.Fatalf when Seek fails.  A
\* seek past the end of a file succeeds; the reads after it find end of file.
EmitSeek(i) ==
    /\ rpc[i] = "seek"
    /\ status = Running
    /\ IF SeekTo(i) > 0
         THEN \/ /\ pos' = [pos EXCEPT ![i] = SeekTo(i)]
                 /\ rpc' = [rpc EXCEPT ![i] = "read"]
                 /\ UNCHANGED <<pc, status, out>>
              \/ /\ FatalWrite(SeekMsg(i))
                 /\ rpc' = [rpc EXCEPT ![i] = "fatal"]
                 /\ UNCHANGED <<pos, pc>>
         ELSE /\ rpc' = [rpc EXCEPT ![i] = "read"]
              /\ UNCHANGED <<pos, pc, status, out>>
    /\ UNCHANGED <<flagVars, opened, file, hold, chan, closed, rerr, sent, cursorVars>>

\* The os.Exit(1) that ends the log.Fatalf of a failed Seek.
EmitFatalExit(i) ==
    /\ rpc[i] = "fatal"
    /\ status = Running
    /\ Exit(1, <<>>)
    /\ UNCHANGED <<flagVars, opened, file, readerVars, cursorVars>>

\* EmitClose without the close: emit returns err and leaves c open.
EmitCloseForgetsClose(i, err) ==
    /\ rerr' = [rerr EXCEPT ![i] = err]
    /\ rpc' = [rpc EXCEPT ![i] = "done"]
    /\ UNCHANGED <<closed, pos, hold>>

\* EmitClose without the return: emit closes c and goes on reading.
EmitCloseAndGoOn(i, err) ==
    /\ closed' = [closed EXCEPT ![i] = TRUE]
    /\ rerr' = [rerr EXCEPT ![i] = err]
    /\ UNCHANGED <<rpc, pos, hold>>

\* emit gives up: close(c) and return err.
EmitClose(i, err) ==
    /\ closed' = [closed EXCEPT ![i] = TRUE]
    /\ rerr' = [rerr EXCEPT ![i] = err]
    /\ rpc' = [rpc EXCEPT ![i] = "done"]
    /\ UNCHANGED <<pos, hold>>

\* b.ReadByte(): the next byte of the file, io.EOF at its end, or a read
\* error at any point.
EmitRead(i) ==
    /\ rpc[i] = "read"
    /\ status = Running
    /\ \/ /\ pos[i] < Len(file[i])
          /\ hold' = [hold EXCEPT ![i] = file[i][pos[i] + 1]]
          /\ pos' = [pos EXCEPT ![i] = pos[i] + 1]
          /\ rpc' = [rpc EXCEPT ![i] = "send"]
          /\ UNCHANGED <<closed, rerr>>
       \/ /\ pos[i] >= Len(file[i])
          /\ EmitClose(i, "eof")
       \/ EmitClose(i, "io")
    /\ UNCHANGED <<pc, flagVars, opened, file, chan, sent, cursorVars, status, out>>

\* CanSend for a channel without a bound.
CanSendAlways(i) == TRUE
\* CanSend for a channel made with one slot less.
CanSendOneSlotLess(i) == Len(chan[i]) < ChanCap - 1
\* A send on c[i] can proceed: the buffer make(chan byte, 8192) gave the
\* channel is not full.
CanSend(i) == Len(chan[i]) < ChanCap

\* The capacity of a channel with room for one byte more than ChanCap: a
\* reader can run two bytes and more ahead of main.
WideCap == ChanCap + 1
\* A send can proceed on a channel of capacity WideCap.
CanSendWide(i) == Len(chan[i]) < WideCap

\* c <- b on a channel that has room when free holds: the byte in hand goes
\* to the tail of the channel.
SendOn(i, free) ==
    /\ rpc[i] = "send"
    /\ status = Running
    /\ free
    /\ chan' = [chan EXCEPT ![i] = Append(chan[i], hold[i])]
    /\ sent' = [sent EXCEPT ![i] = Append(sent[i], hold[i])]
    /\ rpc' = [rpc EXCEPT ![i] = "read"]
    /\ UNCHANGED <<pc, flagVars, opened, file, pos, hold, closed, rerr, cursorVars,
                   status, out>>

\* c <- b: blocks while the channel is full.
EmitSend(i) == SendOn(i, CanSend(i))
\* c <- b on a channel of capacity WideCap.
EmitSendWide(i) == SendOn(i, CanSendWide(i))

\* -------------------------------------------------- main: the comparison
\* <-c[i] can proceed: a byte is buffered or the channel is closed.
CanRecv(i) == chan[i] # <<>> \/ closed[i]
\* The value <-c[i] yields: the oldest buffered byte, or the zero value of
\* byte once the channel is closed and drained.
RecvVal(i) == IF chan[i] # <<>> THEN Head(chan[i]) ELSE NUL
\* The channel after the receive.
RecvRest(i) == IF chan[i] # <<>> THEN Tail(chan[i]) ELSE chan[i]

\* b1 = <-c[0]
Recv0 ==
    /\ pc = "recv0"
    /\ status = Running
    /\ CanRecv(0)
    /\ b1' = RecvVal(0)
    /\ chan' = [chan EXCEPT ![0] = RecvRest(0)]
    /\ rcvd' = [rcvd EXCEPT ![0] = Append(rcvd[0], RecvVal(0))]
    /\ pc' = "recv1"
    /\ UNCHANGED <<flagVars, opened, file, rpc, pos, hold, closed, rerr, sent, b2,
                   lineno, charno, status, out>>

\* if b1 != b2
Mismatch(x, y) == x # y
\* if b1 == '\u0000' && b2 == '\u0000'
BothZero(x, y) == x = NUL /\ y = NUL
\* NextChar advancing on equal pairs only.
NextCharOnEqualOnly(c, x, y) == IF x = y THEN c + 1 ELSE c
\* charno after the "charno++" at the label skip, reached by equal pairs and
\* by the mismatches long mode lists.
NextChar(c, x, y) == c + 1
\* NextLine testing b2 instead of b1.
NextLineOfSecond(ln, x, y) == IF y = NL THEN ln + 1 ELSE ln
\* lineno after the "if b1 == '\n'" at the end of the loop body.
NextLine(ln, x, y) == IF x = NL THEN ln + 1 ELSE ln

\* The outcomes of one pass through the loop body: the messages it writes,
\* whether the process exits and with which status.
\* if *silent { os.Exit(1) }
SilentExit == [exit |-> TRUE, st |-> 1, msgs |-> <<>>]
\* if *line { Fprintf(... char %d line %d); os.Exit(1) }
LineExit(c, ln) == [exit |-> TRUE, st |-> 1, msgs |-> <<DifferLineMsg(c, ln)>>]
\* if b1 == 0 / b2 == 0 { Fprintf("EOF on %s", fnames[i]); os.Exit(1) }
EOFExit(i) == [exit |-> TRUE, st |-> 1, msgs |-> <<EOFMsg(i)>>]
\* Fprintf("%8d %#.2o %#.2o", charno, b1, b2); goto skip
ListContinue(c, x, y) == [exit |-> FALSE, st |-> Running, msgs |-> <<ListMsg(c, x, y)>>]
\* Fprintf(... differ: char %d); os.Exit(1)
DifferExit(c) == [exit |-> TRUE, st |-> 1, msgs |-> <<DifferMsg(c)>>]
\* EqualExit written as os.Exit(1).
EqualExitWrongStatus == [exit |-> TRUE, st |-> 1, msgs |-> <<>>]
\* if b1 == 0 && b2 == 0 { os.Exit(0) }
EqualExit == [exit |-> TRUE, st |-> 0, msgs |-> <<>>]
\* the loop goes round
Continue == [exit |-> FALSE, st |-> Running, msgs |-> <<>>]

\* Compare with the test of *long placed before the test of *line.
CompareLongBeforeLine(x, y, c, ln) ==
    IF Mismatch(x, y)
      THEN IF silent THEN SilentExit
           ELSE IF long
             THEN IF x = NUL THEN EOFExit(0)
                  ELSE IF y = NUL THEN EOFExit(1)
                  ELSE ListContinue(c, x, y)
           ELSE IF line THEN LineExit(c, ln)
           ELSE DifferExit(c)
      ELSE IF BothZero(x, y) THEN EqualExit ELSE Continue

\* What the loop body does with the pair (x, y) at the cursor (c, ln).
Compare(x, y, c, ln) ==
    IF Mismatch(x, y)
      THEN IF silent THEN SilentExit
           ELSE IF line THEN LineExit(c, ln)
           ELSE IF long
             THEN IF x = NUL THEN EOFExit(0)
                  ELSE IF y = NUL THEN EOFExit(1)
                  ELSE ListContinue(c, x, y)
           ELSE DifferExit(c)
      ELSE IF BothZero(x, y) THEN EqualExit ELSE Continue

\* Recv1 written as b2 = <-c[0]: both bytes of a pair come from the first
\* channel.
Recv1FromFirstChannel ==
    /\ pc = "recv1"
    /\ status = Running
    /\ CanRecv(0)
    /\ b2' = RecvVal(0)
    /\ chan' = [chan EXCEPT ![0] = RecvRest(0)]
    /\ rcvd' = [rcvd EXCEPT ![0] = Append(rcvd[0], RecvVal(0))]
    /\ pc' = "body"
    /\ UNCHANGED <<flagVars, opened, file, rpc, pos, hold, closed, rerr, sent, b1,
                   lineno, charno, status, out>>

\* b2 = <-c[1].  The receive frees a slot of c[1]; the emits run on while
\* main goes through the rest of the loop body.
Recv1 ==
    /\ pc = "recv1"
    /\ status = Running
    /\ CanRecv(1)
    /\ b2' = RecvVal(1)
    /\ chan' = [chan EXCEPT ![1] = RecvRest(1)]
    /\ rcvd' = [rcvd EXCEPT ![1] = Append(rcvd[1], RecvVal(1))]
    /\ pc' = "body"
    /\ UNCHANGED <<flagVars, opened, file, rpc, pos, hold, closed, rerr, sent, b1,
                   lineno, charno, status, out>>

\* The os.Exit the loop body has reached with the outcome r.
ExitAt(r) == IF r.st = 0 THEN "exit0" ELSE "exit1"

\* The loop body after the two receives, up to its os.Exit or to the head
\* of the loop: the tests on b1 and b2, the Fprintf of the report, and at
\* the label skip charno++ and the count of lines, before the test that
\* leads to os.Exit(0).
Body ==
    /\ pc = "body"
    /\ status = Running
    /\ LET r == Compare(b1, b2, charno, lineno)
           mis == Mismatch(b1, b2)
       IN
        /\ out' = out \o r.msgs
        /\ IF r.exit /\ mis
             THEN UNCHANGED <<charno, lineno>>
             ELSE /\ charno' = NextChar(charno, b1, b2)
                  /\ lineno' = NextLine(lineno, b1, b2)
        /\ pc' = (IF r.exit THEN ExitAt(r) ELSE "recv0")
    /\ UNCHANGED <<flagVars, opened, file, readerVars, b1, b2, rcvd, status>>

\* The os.Exit of the loop body.  The emits have run on since the receive
\* of b2 and since the report was written.
LoopExit ==
    /\ pc \in {"exit0", "exit1"}
    /\ status = Running
    /\ Exit(IF pc = "exit0" THEN 0 ELSE 1, <<>>)
    /\ UNCHANGED <<flagVars, opened, file, readerVars, cursorVars>>

Next ==
    \/ ParseArgs
    \/ \E i \in 0 .. 1 : OpenFile(i)
    \/ \E i \in 0 .. 1 : EmitSeek(i)
    \/ \E i \in 0 .. 1 : EmitRead(i)
    \/ \E i \in 0 .. 1 : EmitSend(i)
    \/ \E i \in 0 .. 1 : EmitFatalExit(i)
    \/ MainFatalExit
    \/ Recv0
    \/ Recv1
    \/ Body
    \/ LoopExit

Spec == Init /\ [][Next]_vars

\* The same program run on the files of LongFiles.
NextLong ==
    \/ ParseArgs
    \/ \E i \in 0 .. 1 : OpenLongFile(i)
    \/ \E i \in 0 .. 1 : EmitSeek(i)
    \/ \E i \in 0 .. 1 : EmitRead(i)
    \/ \E i \in 0 .. 1 : EmitSend(i)
    \/ \E i \in 0 .. 1 : EmitFatalExit(i)
    \/ MainFatalExit
    \/ Recv0
    \/ Recv1
    \/ Body
    \/ LoopExit

SpecLong == Init /\ [][NextLong]_vars

\* The same program with channels of capacity WideCap.
NextWide ==
    \/ ParseArgs
    \/ \E i \in 0 .. 1 : OpenFile(i)
    \/ \E i \in 0 .. 1 : EmitSeek(i)
    \/ \E i \in 0 .. 1 : EmitRead(i)
    \/ \E i \in 0 .. 1 : EmitSendWide(i)
    \/ \E i \in 0 .. 1 : EmitFatalExit(i)
    \/ MainFatalExit
    \/ Recv0
    \/ Recv1
    \/ Body
    \/ LoopExit

SpecWide == Init /\ [][NextWide]_vars

\* The three goroutines: main, and emit on each file.
Main ==
    \/ ParseArgs \/ OpenFile(0) \/ OpenFile(1) \/ MainFatalExit
    \/ Recv0 \/ Recv1 \/ Body \/ LoopExit
Emit(i) == EmitSeek(i) \/ EmitRead(i) \/ EmitSend(i) \/ EmitFatalExit(i)

\* The program under a scheduler that lets every goroutine that can run,
\* run: a read or a seek returns, a send or a receive that can proceed does.
FairSpec ==
    /\ Init /\ [][Next]_vars
    /\ WF_vars(Main)
    /\ WF_vars(Emit(0))
    /\ WF_vars(Emit(1))

\* ------------------------------------------------ vocabulary of the claims
Min(a, b) == IF a <= b THEN a ELSE b
Max(a, b) == IF a >= b THEN a ELSE b

\* The bytes of source i from its offset onward: what is compared.
Stream(i) ==
    IF offset[i] >= Len(file[i]) THEN <<>>
    ELSE SubSeq(file[i], offset[i] + 1, Len(file[i]))

\* The reporting mode the flags select.
Quiet == silent
LineOnly == ~silent /\ line
LongMode == ~silent /\ ~line /\ long
DefaultMode == ~silent /\ ~line /\ ~long

ErrorKinds == {"badoffset", "usage", "open", "seek"}
\* An error message was written.
ErrorReported == \E n \in 1 .. Len(out) : out[n].kind \in ErrorKinds
Finished == status # Running
\* The run was ended by the comparison loop.
LoopEnded == Finished /\ opened[0] /\ opened[1] /\ ~ErrorReported
ReadFailed == rerr[0] = "io" \/ rerr[1] = "io"
\* The run was ended by the comparison loop and no read failed.
CleanEnd == LoopEnded /\ ~ReadFailed

\* Number of newlines among the first n bytes of s.
NLCount(s, n) == Cardinality({j \in 1 .. n : s[j] = NL})
\* s holds no NUL byte.
NoNUL(s) == \A j \in 1 .. Len(s) : s[j] # NUL
\* s is a strict prefix of t.
StrictPrefix(s, t) == Len(s) < Len(t) /\ \A j \in 1 .. Len(s) : s[j] = t[j]
\* Both streams hold a byte at k, the two differ, and all before k are equal.
FirstDiffByte(k) ==
    /\ k <= Len(Stream(0)) /\ k <= Len(Stream(1))
    /\ Stream(0)[k] # Stream(1)[k]
    /\ \A j \in 1 .. k - 1 : Stream(0)[j] = Stream(1)[j]
\* The positions both streams reach and hold different bytes at.
DiffPositions ==
    {k \in 1 .. Min(Len(Stream(0)), Len(Stream(1))) : Stream(0)[k] # Stream(1)[k]}
\* The byte-listing reports written, in order.
ListReports == SelectSeq(out, LAMBDA m : m.kind = "list")
\* out is one "differ" report (with or without line) carrying char k.
OneDifferReport(k) ==
    /\ Len(out) = 1
    /\ out[1].kind \in {"differ", "differline"}
    /\ out[1].char = k

\* ------------------------------------------------------------------ C1
\* C1: sources with identical content and equal length after their offsets,
\* compared without a read failure under any combination of -s, -L and -l,
\* end the run with exit status 0 and no message written.
C1_EqualSourcesExitZero ==
    (CleanEnd /\ Stream(0) = Stream(1)) => (status = 0 /\ out = <<>>)

\* Equal non-empty streams behind different offsets, compared with every flag set.
C1_Witness ==
    /\ CleanEnd /\ Stream(0) = Stream(1)
    /\ Len(Stream(0)) >= 1 /\ NoNUL(Stream(0))
    /\ offset[0] # offset[1]
    /\ silent /\ line /\ long

\* ------------------------------------------------------------------ C2
\* C2: when the sources first hold different bytes at compared position k,
\* default mode and -L mode write exactly one report, carrying char k, and
\* exit with status 1.
C2_FirstDifferenceReported ==
    \A k \in 1 .. MaxLen :
        (CleanEnd /\ ~silent /\ ~long /\ FirstDiffByte(k))
            => (status = 1 /\ OneDifferReport(k))

\* ------------------------------------------------------------------ C3
\* C3: in long mode (-l only) the byte-listing reports are exactly the
\* positions, in increasing order, at which both sources hold a byte and the
\* two bytes differ.
C3_LongListsEveryDifference ==
    (CleanEnd /\ LongMode) =>
        /\ {ListReports[n].char : n \in 1 .. Len(ListReports)} = DiffPositions
        /\ \A n \in 1 .. Len(ListReports) - 1 :
              ListReports[n].char < ListReports[n + 1].char

\* ------------------------------------------------------------------ C4
\* C4: sources that differ end the run with exit status 1 in every mode, and
\* exit status 0 is produced only for equal sources.  Stated for sources
\* without NUL bytes, where no data byte equals the value a closed channel
\* yields.
C4_DifferentSourcesExitOne ==
    (CleanEnd /\ NoNUL(Stream(0)) /\ NoNUL(Stream(1))) =>
        /\ Stream(0) # Stream(1) => status = 1
        /\ status = 0 => Stream(0) = Stream(1)

\* ------------------------------------------------------------------ C5
\* C5: when source i is a strict prefix of the other source, long mode
\* writes the end-of-file report naming source i, default and -L mode write
\* one report carrying char Len(source i) + 1, and every mode exits with 1.
C5_StrictPrefixReported ==
    \A i \in 0 .. 1 :
        (CleanEnd /\ StrictPrefix(Stream(i), Stream(1 - i))) =>
            /\ status = 1
            /\ LongMode => out = <<EOFMsg(i)>>
            /\ (LineOnly \/ DefaultMode) => OneDifferReport(Len(Stream(i)) + 1)

\* ------------------------------------------------------------------ C6
\* C6: the comparison loop exits with status 0 only when both channels are
\* closed and drained, both emit goroutines having returned.
C6_ExitZeroOnlyWhenExhausted ==
    (CleanEnd /\ status = 0) =>
        \A i \in 0 .. 1 : closed[i] /\ chan[i] = <<>> /\ rpc[i] = "done"

\* ------------------------------------------------------------------ C7
\* C7: with -s, sources that differ end the run with no message written and
\* exit status 1, whatever -L and -l are.
C7_SilentDifferenceExitOne ==
    (CleanEnd /\ silent /\ Stream(0) # Stream(1)) => (out = <<>> /\ status = 1)

\* ------------------------------------------------------------------ C8
\* The bytes of source 1 (index 0) that the first charno - 1 receives of b1
\* can have delivered.
TakenOfFirst ==
    Min(charno - 1, Min(Len(Stream(0)), Max(0, pos[0] - offset[0])))

\* C8: a line-number report at char k follows k - 1 equal pairs, and its line
\* is 1 plus the number of newlines among the first k - 1 bytes of the first
\* source; in every state lineno is 1 plus the number of newlines among the
\* bytes received so far from the first source, whatever the second holds.
C8_LineCountsFirstSource ==
    /\ \A n \in 1 .. Len(out) :
          out[n].kind = "differline" =>
              LET k == out[n].char IN
              /\ k - 1 <= Min(Len(Stream(0)), Len(Stream(1)))
              /\ \A j \in 1 .. k - 1 : Stream(0)[j] = Stream(1)[j]
              /\ out[n].line = 1 + NLCount(Stream(0), k - 1)
    /\ lineno = 1 + NLCount(Stream(0), TakenOfFirst)

\* A -L report on line 2 or later: a newline precedes the first difference.
C8_Witness ==
    /\ LoopEnded /\ LineOnly
    /\ \E n \in 1 .. Len(out) : out[n].kind = "differline" /\ out[n].line >= 2

\* ------------------------------------------------------------------ C9
\* ReadByte of emit i failed, with an error other than end of file, after it
\* had delivered a byte and before the end of its file, and the comparison
\* loop went on to receive from the channel closed on that failure.
ReadFailedMidStream(i) ==
    /\ rerr[i] = "io"
    /\ pos[i] > offset[i] /\ pos[i] < Len(file[i])
    /\ charno > pos[i] - offset[i]

\* C9: a run in which ReadByte failed mid-stream with an error other than end
\* of file ends with an error message and a nonzero exit status, never as
\* equal or as an ordinary difference.  Stated for files without NUL bytes,
\* where no data byte equals the value a closed channel yields.
C9_ReadErrorIsFatal ==
    (/\ Finished
     /\ NoNUL(file[0]) /\ NoNUL(file[1])
     /\ \E i \in 0 .. 1 : ReadFailedMidStream(i))
        => (status # 0 /\ ErrorReported)

\* ------------------------------------------------------------------ C10
\* C10: every error outcome has a message written and a nonzero exit status,
\* and a usage or open error leaves no byte compared and starts no emit.
C10_ErrorsExitNonzero ==
    (Finished /\ ErrorReported) =>
        /\ status # 0
        /\ \A n \in 1 .. Len(out) :
              /\ out[n].kind \in {"badoffset", "usage"} =>
                    (charno = 1 /\ rpc[0] = "idle" /\ rpc[1] = "idle")
              /\ out[n].kind = "open" => (charno = 1 /\ rpc[out[n].name] = "idle")

\* ------------------------------------------------------------------ C11
\* C11: on a mismatch the flags act in the order -s, -L, -l, none.  With -s
\* nothing but an error is ever written and the mismatch exits with status 1; with -L and
\* without -s the mismatch writes the one line-number report and exits with
\* status 1, whatever -l is, and no byte listing or EOF report is written;
\* with -l alone the run ends on a mismatch only with the EOF report; with no
\* flag the mismatch writes the one plain report.  Outside long mode the
\* loop never goes round after a mismatch.
C11_FlagPriority ==
    /\ (silent /\ ~ErrorReported) => out = <<>>
    /\ (pc \in {"recv0", "recv1", "body"} /\ line /\ ~ErrorReported) => out = <<>>
    /\ (pc = "recv0" /\ rcvd[1] # <<>> /\ ~LongMode) => b1 = b2
    /\ (LoopEnded /\ b1 # b2) =>
          /\ status = 1
          /\ LineOnly => out = <<DifferLineMsg(charno, lineno)>>
          /\ DefaultMode => out = <<DifferMsg(charno)>>
          /\ LongMode =>
                /\ out # <<>>
                /\ out[Len(out)] \in {EOFMsg(0), EOFMsg(1)}
                /\ \A n \in 1 .. Len(out) - 1 : out[n].kind = "list"

\* -L and -l together, run ended by a mismatch of two data bytes that
\* long mode would have listed.
C11_Witness ==
    /\ LoopEnded /\ ~silent /\ line /\ long
    /\ b1 # b2 /\ b1 # NUL /\ b2 # NUL
    /\ charno >= 2

\* ------------------------------------------------------------------ C12
\* emit i is past its Seek.
Seeked(i) == rpc[i] \in {"read", "send", "done"}
\* The first read of emit i failed.
FailedAtStart(i) == rerr[i] = "io" /\ pos[i] = offset[i]

\* C12: the read position of emit i is its own offset plus the bytes it has
\* read, whatever the other offset is; the first value received from source
\* i is the byte at offset[i] of its file (the zero value when the file holds
\* no byte there or the first read failed); charno and lineno are 1 when
\* the first pair is received.
C12_OffsetsAreIndependent ==
    /\ \A i \in 0 .. 1 :
          /\ Seeked(i) =>
                pos[i] = offset[i] + Len(sent[i]) + (IF rpc[i] = "send" THEN 1 ELSE 0)
          /\ sent[i] # <<>> => sent[i][1] = file[i][offset[i] + 1]
          /\ rcvd[i] # <<>> =>
                rcvd[i][1] = (IF offset[i] < Len(file[i]) /\ ~FailedAtStart(i)
                                THEN file[i][offset[i] + 1] ELSE NUL)
    /\ (pc \in {"open0", "open1", "recv0"} /\ rcvd[1] = <<>>) => (charno = 1 /\ lineno = 1)
    /\ (pc = "recv1" /\ Len(rcvd[0]) = 1) => (charno = 1 /\ lineno = 1)
    /\ (pc = "body" /\ Len(rcvd[1]) = 1) => (charno = 1 /\ lineno = 1)

\* Offsets (1, 0): the first pair received is byte 1 of the first file, which
\* differs from its byte 0, and byte 0 of the second file.
C12_Witness ==
    /\ offset[0] = 1 /\ offset[1] = 0
    /\ Len(file[0]) = 2 /\ file[0][1] # file[0][2]
    /\ Len(file[1]) = 2 /\ file[1][1] # file[1][2]
    /\ rcvd[0] # <<>> /\ rcvd[1] # <<>>
    /\ rcvd[0][1] = file[0][2] /\ rcvd[1][1] = file[1][1]

\* ------------------------------------------------------------------ C13
\* C13: in every state reached under any interleaving, the k-th value main
\* received from channel i is the k-th byte emit i sent (the zero value once
\* emit i has sent fewer than k and closed), the pair compared last is the
\* pair of the values received last from the two channels, and the receives
\* from channel 0 are as many as those from channel 1, or one more while
\* main waits for channel 1.
C13_LockstepPairing ==
    /\ \A i \in 0 .. 1 : \A k \in 1 .. Len(rcvd[i]) :
          /\ k <= Len(sent[i]) => rcvd[i][k] = sent[i][k]
          /\ k > Len(sent[i]) => (rcvd[i][k] = NUL /\ closed[i])
    /\ Len(rcvd[0]) - Len(rcvd[1]) = (IF pc = "recv1" THEN 1 ELSE 0)
          \/ (pc = "exited" /\ Len(rcvd[0]) - Len(rcvd[1]) = 1 /\ ErrorReported)
    /\ (Len(rcvd[0]) = Len(rcvd[1]) /\ rcvd[1] # <<>>) =>
          (b1 = rcvd[0][Len(rcvd[0])] /\ b2 = rcvd[1][Len(rcvd[1])])

\* Both emits have run two bytes ahead of main: each channel held two
\* different bytes, in source order, before main received any.  main has
\* since taken the first byte of channel 0 and waits to take the first of the
\* two bytes queued in channel 1.
C13_Witness ==
    /\ pc = "recv1"
    /\ Len(rcvd[0]) = 1 /\ rcvd[1] = <<>>
    /\ Len(sent[0]) = 2 /\ sent[0][1] # sent[0][2]
    /\ chan[0] = <<sent[0][2]>>
    /\ Len(chan[1]) = 2 /\ chan[1][1] # chan[1][2]
    /\ chan[1] = Stream(1)
    /\ rcvd[0][1] # chan[1][1]
    /\ LongMode

\* ------------------------------------------------------------------ C14
\* s is a prefix of t.
IsPrefix(s, t) == Len(s) <= Len(t) /\ \A j \in 1 .. Len(s) : s[j] = t[j]

\* The bytes sent are a prefix of the stream; a closed channel belongs to an
\* emit that returned, on end of file after sending the whole stream or on
\* a failed read.
C14_State ==
    \A i \in 0 .. 1 :
        /\ IsPrefix(sent[i], Stream(i))
        /\ closed[i] =>
              /\ rpc[i] = "done"
              /\ rerr[i] \in {"eof", "io"}
              /\ rerr[i] = "eof" => sent[i] = Stream(i)
        /\ ~closed[i] => (rerr[i] = "none" /\ rpc[i] # "done")

\* A send appends the next byte of the stream to an open channel; nothing
\* is sent or closed again on a closed channel.
C14_Step ==
    \A i \in 0 .. 1 :
        /\ sent'[i] # sent[i] =>
              /\ ~closed[i] /\ ~closed'[i]
              /\ Len(sent[i]) < Len(Stream(i))
              /\ sent'[i] = Append(sent[i], Stream(i)[Len(sent[i]) + 1])
        /\ closed[i] =>
              /\ closed'[i]
              /\ sent'[i] = sent[i] /\ rerr'[i] = rerr[i] /\ rpc'[i] = rpc[i]
              /\ Len(chan'[i]) <= Len(chan[i])

\* C14: at all times the bytes sent on channel i are a prefix of source i
\* from its offset, in source order; the channel is closed once, after the
\* last byte was sent or a read failed, and nothing is sent after the close.
C14_OrderedSendsOneClose == [](C14_State) /\ [][C14_Step]_vars

\* One channel closed at end of file after two bytes, the other closed by a
\* failed read after one byte of two.
C14_Witness ==
    \E i \in 0 .. 1 :
        /\ closed[i] /\ rerr[i] = "eof" /\ Len(sent[i]) = 2
        /\ closed[1 - i] /\ rerr[1 - i] = "io"
        /\ Len(sent[1 - i]) = 1 /\ Len(Stream(1 - i)) = 2

\* ------------------------------------------------------------------ C15
\* C15: in long mode an EOF report naming source i is written only at a
\* compared position past the end of source i that the other source still
\* reaches; every compared position at which both sources hold a byte and
\* the bytes differ gets a byte-listing report.
C15_EOFOnlyWhenExhausted ==
    (CleanEnd /\ LongMode) =>
        /\ \A i \in 0 .. 1 :
              (\E n \in 1 .. Len(out) : out[n] = EOFMsg(i)) =>
                  /\ charno > Len(Stream(i))
                  /\ charno <= Len(Stream(1 - i))
        /\ \A k \in DiffPositions :
              k <= Len(rcvd[1]) =>
                  \E n \in 1 .. Len(out) : out[n].kind = "list" /\ out[n].char = k

\* ------------------------------------------------------------------ C16
\* At the head of the loop, and while main waits for channel 1, charno is 1
\* plus the number of pairs received; in the loop body, before the label skip,
\* it is the number of the pair just received.
C16_State ==
    /\ pc = "recv0" => charno = 1 + Len(rcvd[1])
    /\ pc = "recv1" => (charno = 1 + Len(rcvd[1]) /\ charno = Len(rcvd[0]))
    /\ pc = "body" => (charno = Len(rcvd[1]) /\ charno = Len(rcvd[0]))

\* charno changes only in the loop body of a received pair, and then by 1.
C16_Step ==
    charno' # charno =>
        /\ pc = "body"
        /\ charno = Len(rcvd[1])
        /\ rcvd' = rcvd
        /\ charno' = charno + 1
        /\ sent' = sent /\ rpc' = rpc /\ pos' = pos

\* C16: at the start of every loop iteration charno is 1 plus the number of
\* pairs received, in every mode, also past the mismatches long mode lists;
\* it advances by exactly 1 per pair and no step of emit changes it.
C16_CharnoCountsPairs == [](C16_State) /\ [][C16_Step]_vars

\* Long mode back at the head of the loop after two listed mismatches.
C16_Witness ==
    /\ pc = "recv0" /\ LongMode
    /\ charno = 3
    /\ Len(ListReports) = 2

\* ------------------------------------------------------------------ C17
\* emit i has been started and has not returned.
Emitting(i) == status = Running /\ rpc[i] \in {"seek", "read", "send"}
\* emit i can take its next step.
CanStep(i) == ENABLED (EmitSeek(i) \/ EmitRead(i) \/ EmitSend(i))
\* main can take its next step.
MainCanStep == ENABLED (Recv0 \/ Recv1 \/ Body \/ LoopExit)

\* C17 as claimed: while the emit of the smaller source has not returned and
\* the other emit has made no progress at all, a step that is not the other
\* emit's is possible, so the smaller source is emitted and its channel
\* closed without the other emit.
C17_SmallerSourceNeverWaits ==
    \A i \in 0 .. 1 :
        (/\ Emitting(i)
         /\ rpc[1 - i] = "seek"
         /\ Len(Stream(i)) < Len(Stream(1 - i)))
            => (CanStep(i) \/ MainCanStep)

\* C17 as amended: an emit whose source holds, from its offset, no more
\* bytes than the channel has slots can always take its next step, whatever
\* the other emit and main do, until it has closed its channel.
C17_SourceWithinCapacityNeverWaits ==
    \A i \in 0 .. 1 :
        (Emitting(i) /\ Len(Stream(i)) <= ChanCap) => CanStep(i)

\* An emit has sent a source that fills the channel and closed it, while the
\* other emit has made no progress and main waits on the empty channel 0.
C17_Witness ==
    /\ status = Running /\ pc = "recv0"
    /\ rpc[0] = "seek" /\ chan[0] = <<>>
    /\ closed[1] /\ rerr[1] = "eof"
    /\ Len(sent[1]) = ChanCap /\ Len(chan[1]) = ChanCap
    /\ Len(Stream(1)) < Len(Stream(0))

\* ------------------------------------------------------------------ C18
\* emit i waits in "c <- b" on a full channel.
BlockedOnSend(i) == status = Running /\ rpc[i] = "send" /\ Len(chan[i]) = ChanCap
\* The values main received from channel i as bytes emit i sent.
TakenFrom(i) == SubSeq(rcvd[i], 1, Len(sent[i]) - Len(chan[i]))

\* C18: a channel never holds more bytes than its capacity; an emit that
\* has the next byte in hand while its channel is full can take no step;
\* the byte it holds is the next byte of its source, and the bytes sent are
\* the bytes main has received followed by the bytes still in the channel,
\* so none is dropped or reordered.
C18_BoundedChannelNoLoss ==
    \A i \in 0 .. 1 :
        /\ Len(chan[i]) <= ChanCap
        /\ BlockedOnSend(i) => ~CanStep(i)
        /\ rpc[i] = "send" =>
              (/\ Len(sent[i]) < Len(Stream(i))
               /\ hold[i] = Stream(i)[Len(sent[i]) + 1])
        /\ Len(sent[i]) - Len(chan[i]) <= Len(rcvd[i])
        /\ sent[i] = TakenFrom(i) \o chan[i]

\* An emit has sent one byte more than the capacity: its last send had to
\* wait for main to take the first byte, which differs from the second.
C18_Witness ==
    \E i \in 0 .. 1 :
        /\ Len(sent[i]) = ChanCap + 1
        /\ Len(chan[i]) = ChanCap
        /\ Len(rcvd[i]) = 1
        /\ sent[i][1] # sent[i][ChanCap + 1]

\* ------------------------------------------------------------------ C19
\* C19: for any two files, offsets and flags, when every goroutine that can
\* run does run, the process exits: the emits and main never wait for each
\* other forever, and long mode's loop past mismatches ends.
C19_Terminates == <>Finished

\* Long mode exited after listing a mismatch and going round the loop, in a
\* run in which an emit had been blocked on its full channel.
C19_Witness ==
    /\ LoopEnded /\ LongMode
    /\ Len(ListReports) >= 1
    /\ \E i \in 0 .. 1 : Len(sent[i]) = ChanCap + 1

====
